---- MODULE Spec2Model ----
(***************************************************************************)
(* Interaction storage and transformation layer of sbr (src/src/data.rs):  *)
(* the interaction store, its splits, the compressed per-user index with   *)
(* its user and chunk iterators, and the triplet (COO) form with its       *)
(* minibatch iterators.                                                    *)
(*                                                                         *)
(* Vec<T> and slices are sequences: element i of the source (0-based) is   *)
(* element i+1 here.  Option<T> is a sequence of length 0 (None) or 1.     *)
(***************************************************************************)
EXTENDS Integers, Sequences, FiniteSets, Bags, TLC

VARIABLES
    pc,          \* position of the client program (the last operation that returned)
    args,        \* arguments of the most recent call
    store,       \* Option<Interactions>: the store the client owns
    parts,       \* <<>> or the pair of stores returned by the last split
    origin,      \* which store `compressed` was built from
    compressed,  \* Option<CompressedInteractions>
    back,        \* to_interactions() results, per origin
    found,       \* Option<return value of get_user>
    user_it,     \* Option<CompressedInteractionsUserIterator>
    chunk_it,    \* Option<CompressedInteractionsUserChunkIterator>
    yielded,     \* values returned by next() of the current user/chunk iterator
    triplet,     \* Option<TripletInteractions>
    mb_its,      \* the TripletMinibatchIterators handed to the workers
    mb_range,    \* per iterator, the idx and stop_idx it was created with
    mb_out       \* per iterator, the values its next() returned so far

vars == <<pc, args, store, parts, origin, compressed, back, found,
          user_it, chunk_it, yielded, triplet, mb_its, mb_range, mb_out>>

-----------------------------------------------------------------------------
(* Bounds of the model *)

\* longest Vec<Interaction> handed to Interactions::from, and longest store
MaxLen == 3
\* ids and timestamps of the enumerated interactions
UserIds == {0, 1}
ItemIds == {0, 1}
Timestamps == {0, 1}
\* how many times next() of one iterator returns None before the client
\* stops calling it
MaxNones == 2
\* longest history of user 0 in the inputs of the iterator specifications
MaxHistory == 5
\* largest chunk_size, minibatch_size and num_partitions a client passes
MaxChunkSize == 3
MaxMinibatchSize == 3
MaxPartitions == 3

-----------------------------------------------------------------------------
(* Option and sequence helpers *)

None == <<>>
Some(x) == <<x>>
IsSome(o) == Len(o) = 1
Unwrap(o) == o[1]

Max(S) == CHOOSE m \in S : \A x \in S : x <= m

Front(s) == SubSeq(s, 1, Len(s) - 1)
Last(s) == s[Len(s)]

\* &v[start..stop] of a Vec or slice (0-based, stop exclusive)
Slice(v, start, stop) == SubSeq(v, start + 1, stop)

RECURSIVE SeqsUpTo(_, _)
SeqsUpTo(S, n) ==
    IF n = 0 THEN {<<>>}
    ELSE LET shorter == SeqsUpTo(S, n - 1)
         IN  shorter \cup {Append(s, x) : s \in {t \in shorter : Len(t) = n - 1}, x \in S}

RECURSIVE BagOfSeq(_)
BagOfSeq(s) ==
    IF s = <<>> THEN EmptyBag ELSE BagOfSeq(Front(s)) (+) SetToBag({Last(s)})

-----------------------------------------------------------------------------
(* Interaction and Interactions *)

Interaction(user_id, item_id, timestamp) ==
    [user_id |-> user_id, item_id |-> item_id, timestamp |-> timestamp]

Records == {Interaction(u, i, t) : u \in UserIds, i \in ItemIds, t \in Timestamps}

\* the end-to-end scenario: (user, item, timestamp) = (0,2,5), (0,1,1), (1,3,2)
EndToEnd == <<Interaction(0, 2, 5), Interaction(0, 1, 1), Interaction(1, 3, 2)>>

\* the Vec<Interaction> values a client builds a store from
Inputs == SeqsUpTo(Records, MaxLen) \cup {EndToEnd}

Interactions(num_users, num_items, interactions) ==
    [num_users |-> num_users, num_items |-> num_items, interactions |-> interactions]

\* Interactions::new
new(num_users, num_items) == Interactions(num_users, num_items, <<>>)

\* a push that raises the bounds to cover the appended interaction
push_recomputing(self, interaction) ==
    Interactions(Max({self.num_users, interaction.user_id + 1}),
                 Max({self.num_items, interaction.item_id + 1}),
                 Append(self.interactions, interaction))

\* Interactions::push
push(self, interaction) ==
    [self EXCEPT !.interactions = Append(self.interactions, interaction)]

\* Interactions::len
len(self) == Len(self.interactions)

\* Iterator::max over the mapped ids: None on an empty vector
max_of(v, field) ==
    IF v = <<>> THEN None ELSE Some(Max({v[k][field] : k \in 1..Len(v)}))

\* a construction that takes the largest ids themselves as the bounds
from_vec_unshifted(interactions) ==
    LET max_user == max_of(interactions, "user_id")
        max_item == max_of(interactions, "item_id")
    IN  IF ~IsSome(max_user) \/ ~IsSome(max_item)
        THEN [panic |-> TRUE, value |-> new(0, 0)]
        ELSE [panic |-> FALSE,
              value |-> Interactions(Unwrap(max_user), Unwrap(max_item),
                                     interactions)]

\* impl From<Vec<Interaction>> for Interactions; "panic" is the unwrap() of None
from_vec(interactions) ==
    LET max_user == max_of(interactions, "user_id")
        max_item == max_of(interactions, "item_id")
    IN  IF ~IsSome(max_user) \/ ~IsSome(max_item)
        THEN [panic |-> TRUE, value |-> new(0, 0)]
        ELSE [panic |-> FALSE,
              value |-> Interactions(Unwrap(max_user) + 1, Unwrap(max_item) + 1,
                                     interactions)]

\* a split_at that returns the tail first
split_at_swapped(self, idx) ==
    <<Interactions(self.num_users, self.num_items,
                   Slice(self.interactions, idx, len(self))),
      Interactions(self.num_users, self.num_items,
                   Slice(self.interactions, 0, idx))>>

\* Interactions::split_at; the slice self.interactions[..idx] panics when idx > len
split_at(self, idx) ==
    <<Interactions(self.num_users, self.num_items,
                   Slice(self.interactions, 0, idx)),
      Interactions(self.num_users, self.num_items,
                   Slice(self.interactions, idx, len(self)))>>

\* A closure handed to split_by, as the values it captures: the client's
\* |x| x.<field> < below, or is_train of user_based_split with its two keys
\* and its cutoff
Closure(kind, field, below, key_0, key_1, cutoff) ==
    [kind |-> kind, field |-> field, below |-> below,
     key_0 |-> key_0, key_1 |-> key_1, train_cutoff |-> cutoff]

NoClosure == Closure("none", "user_id", 0, 0, 0, 0)

\* the closures a client passes to split_by itself
Predicates ==
    {Closure("below", f, b, 0, 0, 0) : f \in {"user_id", "item_id", "timestamp"}, b \in 0..2}

denominator == 100000

\* The hasher of is_train: SipHasher::new_with_keys(key_0, key_1) fed the
\* user id.  The hash is modelled as an affine keyed family over a few
\* residues, spread to 64-bit values that fall on both sides of every cutoff
\* (and above the denominator); over two user ids the keys reach every pair
\* of hash values.
HashValues == <<25000, 25001, 150000>>
Keys == 0..(Len(HashValues) - 1)
SipHash(key_0, key_1, user_id) ==
    HashValues[((key_0 + key_1 * user_id) % Len(HashValues)) + 1]

\* an is_train that feeds the hasher the item id
is_train_hashes_item(func, x) ==
    SipHash(func.key_0, func.key_1, x.item_id) % denominator > func.train_cutoff

\* the closure is_train applied to x
is_train(func, x) ==
    SipHash(func.key_0, func.key_1, x.user_id) % denominator > func.train_cutoff

\* func(x)
Call(func, x) ==
    IF func.kind = "is_train" THEN is_train(func, x) ELSE x[func.field] < func.below

\* .iter().filter(|x| func(x)).cloned().collect()
filter(interactions, func) == SelectSeq(interactions, LAMBDA x : Call(func, x))

\* .iter().filter(|x| !func(x)).cloned().collect()
filter_not(interactions, func) == SelectSeq(interactions, LAMBDA x : ~Call(func, x))

\* Interactions::split_by
split_by(self, func) ==
    <<Interactions(self.num_users, self.num_items, filter(self.interactions, func)),
      Interactions(self.num_users, self.num_items, filter_not(self.interactions, func))>>

-----------------------------------------------------------------------------
(* user_based_split *)

\* test_fraction is an f32; the model draws it from the quarters q/4, which
\* f32 holds exactly, as it does their product with 100_000
TestFractions == 0..4

\* (test_fraction * denominator as f32) as u64
train_cutoff(test_fraction) == (test_fraction * denominator) \div 4

\* user_based_split, given the two keys it samples from the rng
user_based_split(interactions, key_0, key_1, test_fraction) ==
    split_by(interactions,
             Closure("is_train", "user_id", 0, key_0, key_1, train_cutoff(test_fraction)))

\* The values rng.gen_range(0, i + 1) can yield during one shuffle of n
\* elements, in call order: the j-th call is made with i = n - j
Draws(n) ==
    IF n < 2 THEN {<<>>}
    ELSE {d \in [1..(n - 1) -> 0..(n - 1)] : \A j \in 1..(n - 1) : d[j] <= n - j}

\* values.swap(a, b) of a slice (0-based)
swap(values, a, b) ==
    [values EXCEPT ![a + 1] = values[b + 1], ![b + 1] = values[a + 1]]

\* the loop of rng.shuffle(values) from its j-th round on: i counts down from
\* len - 1 to 1 and element i is swapped with element gen_range(0, i + 1)
RECURSIVE shuffle_rounds(_, _, _)
shuffle_rounds(values, draws, j) ==
    IF Len(values) - j < 1 THEN values
    ELSE shuffle_rounds(swap(values, Len(values) - j, draws[j]), draws, j + 1)

\* Interactions::shuffle, given the values its rng yields
shuffle(self, draws) ==
    [self EXCEPT !.interactions = shuffle_rounds(self.interactions, draws, 1)]

\* (test_fraction * interactions.len() as f32) as usize
test_cut(test_fraction, length) == (test_fraction * length) \div 4

\* a train_test_split that hands the two sides back as split_at returns them
train_test_split_unswapped(interactions, draws, test_fraction) ==
    LET shuffled == shuffle(interactions, draws)
        pair == split_at(shuffled, test_cut(test_fraction, len(shuffled)))
    IN  [interactions |-> shuffled, train |-> pair[1], test |-> pair[2]]

\* train_test_split, given the values its rng yields: the store after the
\* in-place shuffle and the returned (train, test)
train_test_split(interactions, draws, test_fraction) ==
    LET shuffled == shuffle(interactions, draws)
        pair == split_at(shuffled, test_cut(test_fraction, len(shuffled)))
    IN  [interactions |-> shuffled, train |-> pair[2], test |-> pair[1]]

-----------------------------------------------------------------------------
(* CompressedInteractions *)

cmp_timestamp(x, y) ==
    LET uid_comparison ==
            IF x.user_id < y.user_id THEN "Less"
            ELSE IF x.user_id = y.user_id THEN "Equal" ELSE "Greater"
    IN  IF uid_comparison = "Equal"
        THEN IF x.timestamp < y.timestamp THEN "Less"
             ELSE IF x.timestamp = y.timestamp THEN "Equal" ELSE "Greater"
        ELSE uid_comparison

\* an insertion step that also moves past the elements it is Equal to
RECURSIVE insert_tail_past_equal(_, _)
insert_tail_past_equal(sorted, x) ==
    IF sorted = <<>> \/ cmp_timestamp(x, Last(sorted)) = "Greater"
    THEN Append(sorted, x)
    ELSE Append(insert_tail_past_equal(Front(sorted), x), Last(sorted))

\* one step of the insertion sort slice::sort_by runs on short slices: the new
\* element moves left past every element it is Less than
RECURSIVE insert_tail(_, _)
insert_tail(sorted, x) ==
    IF sorted = <<>> \/ cmp_timestamp(x, Last(sorted)) # "Less"
    THEN Append(sorted, x)
    ELSE Append(insert_tail(Front(sorted), x), Last(sorted))

\* data.sort_by(cmp_timestamp)
RECURSIVE sort_by(_)
sort_by(data) ==
    IF data = <<>> THEN <<>> ELSE insert_tail(sort_by(Front(data)), Last(data))

\* a counting pass that increments user_pointers[datum.user_id()]
count_users_unshifted(num_users, data) ==
    [idx \in 1..(num_users + 1) |->
        Cardinality({k \in 1..Len(data) : data[k].user_id = idx - 1})]

\* the counting pass: user_pointers[datum.user_id() + 1] += 1 for every datum
count_users(num_users, data) ==
    [idx \in 1..(num_users + 1) |->
        Cardinality({k \in 1..Len(data) : data[k].user_id + 1 = idx - 1})]

\* for idx in 1..len { user_pointers[idx] += user_pointers[idx - 1] }
RECURSIVE prefix_sum(_, _)
prefix_sum(user_pointers, idx) ==
    IF idx >= Len(user_pointers) THEN user_pointers
    ELSE prefix_sum([user_pointers EXCEPT ![idx + 1] = @ + user_pointers[idx]], idx + 1)

\* impl From<&Interactions> for CompressedInteractions; "panic" is the index
\* user_pointers[datum.user_id() + 1] out of bounds
compressed_from(interactions) ==
    LET data == sort_by(interactions.interactions)
        oob  == \E k \in 1..Len(data) : data[k].user_id + 1 > interactions.num_users
    IN  IF oob
        THEN [panic |-> TRUE, value |-> None]
        ELSE [panic |-> FALSE,
              value |-> Some(
                [num_users     |-> interactions.num_users,
                 num_items     |-> interactions.num_items,
                 user_pointers |-> prefix_sum(count_users(interactions.num_users, data), 1),
                 item_ids      |-> [k \in 1..Len(data) |-> data[k].item_id],
                 timestamps    |-> [k \in 1..Len(data) |-> data[k].timestamp]])]

CompressedInteractionsUser(user_id, item_ids, timestamps) ==
    [user_id |-> user_id, item_ids |-> item_ids, timestamps |-> timestamps]

\* CompressedInteractions::get_user
get_user(self, user_id) ==
    IF user_id >= self.num_users THEN None
    ELSE LET start == self.user_pointers[user_id + 1]
             stop  == self.user_pointers[user_id + 2]
         IN  Some(CompressedInteractionsUser(user_id,
                                             Slice(self.item_ids, start, stop),
                                             Slice(self.timestamps, start, stop)))

\* CompressedInteractionsUserIterator::next: the value returned and the
\* iterator afterwards
user_iterator_next(interactions, it) ==
    [value |-> IF it.idx >= interactions.num_users THEN None
               ELSE LET start == interactions.user_pointers[it.idx + 1]
                        stop  == interactions.user_pointers[it.idx + 2]
                    IN  Some(CompressedInteractionsUser(
                                it.idx,
                                Slice(interactions.item_ids, start, stop),
                                Slice(interactions.timestamps, start, stop))),
     it    |-> [it EXCEPT !.idx = @ + 1]]

\* an iterator that starts at user 1
iter_users_from_one == [idx |-> 1]

\* CompressedInteractions::iter_users
iter_users == [idx |-> 0]

\* a loop that zips the two slices in the wrong order
user_records_swapped(user) ==
    [k \in 1..Len(user.item_ids) |->
        Interaction(user.user_id, user.timestamps[k], user.item_ids[k])]

\* the records one user view contributes to to_interactions (the izip! loop)
user_records(user) ==
    [k \in 1..Len(user.item_ids) |->
        Interaction(user.user_id, user.item_ids[k], user.timestamps[k])]

\* for user in self.iter_users() { ... interactions.push(...) }
RECURSIVE collect_users(_, _, _)
collect_users(self, it, interactions) ==
    LET step == user_iterator_next(self, it)
    IN  IF ~IsSome(step.value) THEN interactions
        ELSE collect_users(self, step.it,
                           interactions \o user_records(Unwrap(step.value)))

\* CompressedInteractions::to_interactions
to_interactions(self) ==
    Interactions(self.num_users, self.num_items, collect_users(self, iter_users, <<>>))

-----------------------------------------------------------------------------
(* CompressedInteractionsUserChunkIterator *)

\* CompressedInteractionsUser::chunks
chunks(self, chunk_size) ==
    [idx |-> 0, chunk_size |-> chunk_size,
     item_ids |-> self.item_ids, timestamps |-> self.timestamps]

\* a chunk iterator that cuts full chunks first and leaves the short one last
next_chunk_size_short_last(self) ==
    LET rest == Len(self.item_ids) - self.idx
    IN  IF rest < self.chunk_size THEN rest ELSE self.chunk_size

\* the length of the chunk next() cuts at self.idx
next_chunk_size(self) ==
    LET user_len == Len(self.item_ids)
        chunk_size_mod == (user_len - self.idx) % self.chunk_size
    IN  IF chunk_size_mod = 0 THEN self.chunk_size ELSE chunk_size_mod

\* a chunk iterator that advances by the nominal chunk size after every chunk
chunk_iterator_next_full_stride(self) ==
    LET user_len == Len(self.item_ids)
    IN  IF self.idx >= user_len
        THEN [value |-> None, it |-> self]
        ELSE LET chunk_size == next_chunk_size(self)
                 start_idx  == self.idx
                 stop_idx   == self.idx + chunk_size
             IN  [value |-> Some([start_idx  |-> start_idx,
                                  item_ids   |-> Slice(self.item_ids, start_idx, stop_idx),
                                  timestamps |-> Slice(self.timestamps, start_idx, stop_idx)]),
                  it    |-> [self EXCEPT !.idx = @ + self.chunk_size]]

\* CompressedInteractionsUserChunkIterator::next: the value returned (the two
\* windows, with the start they were cut at) and the iterator afterwards
chunk_iterator_next(self) ==
    LET user_len == Len(self.item_ids)
    IN  IF self.idx >= user_len
        THEN [value |-> None, it |-> self]
        ELSE LET chunk_size == next_chunk_size(self)
                 start_idx  == self.idx
                 stop_idx   == self.idx + chunk_size
             IN  [value |-> Some([start_idx  |-> start_idx,
                                  item_ids   |-> Slice(self.item_ids, start_idx, stop_idx),
                                  timestamps |-> Slice(self.timestamps, start_idx, stop_idx)]),
                  it    |-> [self EXCEPT !.idx = @ + chunk_size]]

-----------------------------------------------------------------------------
(* TripletInteractions and TripletMinibatchIterator *)

\* impl From<&Interactions> for TripletInteractions
triplet_from(interactions) ==
    LET data == interactions.interactions
    IN  [num_users  |-> interactions.num_users,
         num_items  |-> interactions.num_items,
         user_ids   |-> [k \in 1..Len(data) |-> data[k].user_id],
         item_ids   |-> [k \in 1..Len(data) |-> data[k].item_id],
         timestamps |-> [k \in 1..Len(data) |-> data[k].timestamp]]

\* TripletInteractions::len
triplet_len(self) == Len(self.user_ids)

\* TripletInteractions::iter_minibatch; the iterator borrows the triplet form,
\* which the model keeps in the variable triplet
iter_minibatch(self, minibatch_size) ==
    [idx |-> 0, stop_idx |-> triplet_len(self), minibatch_size |-> minibatch_size]

\* a slice that keeps the stop_idx of the iterator it is cut from
slice_keeps_stop(self, start, stop) ==
    [idx |-> start, stop_idx |-> self.stop_idx, minibatch_size |-> self.minibatch_size]

\* TripletMinibatchIterator::slice
slice(self, start, stop) ==
    [idx |-> start, stop_idx |-> stop, minibatch_size |-> self.minibatch_size]

\* TripletInteractions::iter_minibatch_partitioned: element x of the Vec
\* returned is element x+1 of the sequence
iter_minibatch_partitioned(self, minibatch_size, num_partitions) ==
    LET iterator   == iter_minibatch(self, minibatch_size)
        chunk_size == triplet_len(self) \div num_partitions
    IN  [p \in 1..num_partitions |->
            slice(iterator, (p - 1) * chunk_size, ((p - 1) + 1) * chunk_size)]

\* an iterator that gives up one minibatch early
minibatch_exhausted_early(self) == self.idx + self.minibatch_size >= self.stop_idx

\* whether next() has no minibatch left to return
minibatch_exhausted(self) == self.idx + self.minibatch_size > self.stop_idx

\* TripletMinibatchIterator::next over the triplet form `interactions`: the
\* value returned (the three windows, with the start they were cut at) and
\* the iterator afterwards
minibatch_iterator_next(interactions, self) ==
    [value |-> IF minibatch_exhausted(self) THEN None
               ELSE LET start == self.idx
                        stop  == self.idx + self.minibatch_size
                    IN  Some([start      |-> start,
                              user_ids   |-> Slice(interactions.user_ids, start, stop),
                              item_ids   |-> Slice(interactions.item_ids, start, stop),
                              timestamps |-> Slice(interactions.timestamps, start, stop)]),
     it    |-> [self EXCEPT !.idx = @ + self.minibatch_size]]

-----------------------------------------------------------------------------
(* The client program *)

\* Inputs of the iterator specifications: n1 interactions of user 1 followed
\* by n0 of user 0, item ids counting up and timestamps counting down, so
\* that the index has to reorder every history
History(n0, n1) ==
    [k \in 1..(n1 + n0) |->
        Interaction(IF k <= n1 THEN 1 ELSE 0, k - 1, n1 + n0 - k)]

Histories == {History(n0, n1) : n0 \in 0..MaxHistory, n1 \in 0..2}

NoArgs ==
    [vec |-> <<>>, num_users |-> 0, num_items |-> 0, interaction |-> <<>>,
     idx |-> 0, func |-> NoClosure, test_fraction |-> 0, which |-> "none",
     user_id |-> 0, chunk_size |-> 0, minibatch_size |-> 0, num_partitions |-> 0,
     worker |-> 0, shuffled |-> FALSE, draws |-> <<>>]

NoBack == [store |-> None, first |-> None, second |-> None]

Init ==
    /\ pc = "start"
    /\ args = NoArgs
    /\ store = None
    /\ parts = <<>>
    /\ origin = "none"
    /\ compressed = None
    /\ back = NoBack
    /\ found = None
    /\ user_it = None
    /\ chunk_it = None
    /\ yielded = <<>>
    /\ triplet = None
    /\ mb_its = <<>>
    /\ mb_range = <<>>
    /\ mb_out = <<>>

\* number of None values among the values an iterator returned
Nones(out) == Cardinality({k \in 1..Len(out) : out[k] = None})

\* Interactions::from(vec)
FromVec(vec) ==
    /\ pc = "start"
    /\ args' = [NoArgs EXCEPT !.vec = vec]
    /\ LET r == from_vec(vec)
       IN  IF r.panic
           THEN /\ pc' = "panicked"
                /\ store' = None
           ELSE /\ pc' = "built"
                /\ store' = Some(r.value)
    /\ UNCHANGED <<parts, origin, compressed, back, found, user_it, chunk_it,
                   yielded, triplet, mb_its, mb_range, mb_out>>

\* Interactions::new(num_users, num_items)
New(num_users, num_items) ==
    /\ pc = "start"
    /\ args' = [NoArgs EXCEPT !.num_users = num_users, !.num_items = num_items]
    /\ pc' = "built"
    /\ store' = Some(new(num_users, num_items))
    /\ UNCHANGED <<parts, origin, compressed, back, found, user_it, chunk_it,
                   yielded, triplet, mb_its, mb_range, mb_out>>

\* the interactions a client appends: one below every bound of a store built
\* from a list, one that may exceed them
Pushed == {Interaction(0, 0, 0), Interaction(1, 1, 1)}

\* interactions.push(interaction)
Push(interaction) ==
    /\ pc = "built"
    /\ len(Unwrap(store)) < MaxLen
    /\ args' = [NoArgs EXCEPT !.interaction = Some(interaction)]
    /\ pc' = "built"
    /\ store' = Some(push(Unwrap(store), interaction))
    /\ UNCHANGED <<parts, origin, compressed, back, found, user_it, chunk_it,
                   yielded, triplet, mb_its, mb_range, mb_out>>

\* interactions.split_at(idx)
SplitAt(idx) ==
    /\ pc = "built"
    /\ args' = [NoArgs EXCEPT !.idx = idx]
    /\ IF idx > len(Unwrap(store))
       THEN /\ pc' = "panicked"
            /\ parts' = <<>>
       ELSE /\ pc' = "split_at"
            /\ parts' = split_at(Unwrap(store), idx)
    /\ UNCHANGED <<store, origin, compressed, back, found, user_it, chunk_it,
                   yielded, triplet, mb_its, mb_range, mb_out>>

\* interactions.split_by(func)
SplitBy(func) ==
    /\ pc = "built"
    /\ args' = [NoArgs EXCEPT !.func = func]
    /\ pc' = "split_by"
    /\ parts' = split_by(Unwrap(store), func)
    /\ UNCHANGED <<store, origin, compressed, back, found, user_it, chunk_it,
                   yielded, triplet, mb_its, mb_range, mb_out>>

\* user_based_split(&interactions, &mut rng, test_fraction), the rng yielding
\* key_0 and key_1
UserBasedSplit(key_0, key_1, test_fraction) ==
    /\ pc = "built"
    /\ args' = [NoArgs EXCEPT
                  !.test_fraction = test_fraction,
                  !.func = Closure("is_train", "user_id", 0, key_0, key_1,
                                   train_cutoff(test_fraction))]
    /\ pc' = "user_based_split"
    /\ parts' = user_based_split(Unwrap(store), key_0, key_1, test_fraction)
    /\ UNCHANGED <<store, origin, compressed, back, found, user_it, chunk_it,
                   yielded, triplet, mb_its, mb_range, mb_out>>

\* interactions.shuffle(&mut rng), the rng yielding draws, which leave no
\* trace but the order of the store
Shuffle(draws) ==
    /\ pc = "built"
    /\ draws \in Draws(len(Unwrap(store)))
    /\ args' = [NoArgs EXCEPT !.shuffled = TRUE]
    /\ pc' = "built"
    /\ store' = Some(shuffle(Unwrap(store), draws))
    /\ UNCHANGED <<parts, origin, compressed, back, found, user_it, chunk_it,
                   yielded, triplet, mb_its, mb_range, mb_out>>

\* train_test_split(&mut interactions, &mut rng, test_fraction), the rng
\* yielding draws
TrainTestSplit(draws, test_fraction) ==
    /\ pc = "built"
    /\ draws \in Draws(len(Unwrap(store)))
    /\ args' = [NoArgs EXCEPT !.shuffled = TRUE, !.draws = draws,
                              !.test_fraction = test_fraction]
    /\ pc' = "train_test_split"
    /\ LET r == train_test_split(Unwrap(store), draws, test_fraction)
       IN  /\ store' = Some(r.interactions)
           /\ parts' = <<r.train, r.test>>
    /\ UNCHANGED <<origin, compressed, back, found, user_it, chunk_it,
                   yielded, triplet, mb_its, mb_range, mb_out>>

\* the store a client names: its own, or a side of the last split
Named(which) ==
    IF which = "store" THEN Unwrap(store)
    ELSE IF which = "first" THEN parts[1] ELSE parts[2]

\* <which>.to_compressed(): the store itself, or a side of the last
\* user_based_split that has not been converted back yet
ToCompressed(which) ==
    /\ \/ which = "store" /\ pc = "built"
       \/ /\ which \in {"first", "second"}
          /\ \/ pc = "user_based_split"
             \/ pc = "to_interactions" /\ origin # "store"
          /\ back[which] = None
    /\ args' = [NoArgs EXCEPT !.which = which]
    /\ LET r == compressed_from(Named(which))
       IN  IF r.panic
           THEN /\ pc' = "panicked"
                /\ UNCHANGED <<origin, compressed>>
           ELSE /\ pc' = "to_compressed"
                /\ origin' = which
                /\ compressed' = r.value
    /\ UNCHANGED <<store, parts, back, found, user_it, chunk_it, yielded,
                   triplet, mb_its, mb_range, mb_out>>

\* compressed.to_interactions()
ToInteractions ==
    /\ pc = "to_compressed"
    /\ args' = NoArgs
    /\ pc' = "to_interactions"
    /\ back' = [back EXCEPT ![origin] = Some(to_interactions(Unwrap(compressed)))]
    /\ UNCHANGED <<store, parts, origin, compressed, found, user_it, chunk_it,
                   yielded, triplet, mb_its, mb_range, mb_out>>

\* compressed.get_user(user_id), on the index of the client's own store
GetUser(user_id) ==
    /\ pc \in {"to_compressed", "get_user"}
    /\ origin = "store"
    /\ args' = [NoArgs EXCEPT !.user_id = user_id]
    /\ pc' = "get_user"
    /\ found' = Some(get_user(Unwrap(compressed), user_id))
    /\ UNCHANGED <<store, parts, origin, compressed, back, user_it, chunk_it,
                   yielded, triplet, mb_its, mb_range, mb_out>>

\* compressed.iter_users(): a fresh iterator, also after an earlier one
IterUsers ==
    /\ pc \in {"to_compressed", "user_next"}
    /\ origin = "store"
    /\ args' = NoArgs
    /\ pc' = "iter_users"
    /\ user_it' = Some(iter_users)
    /\ yielded' = <<>>
    /\ UNCHANGED <<store, parts, origin, compressed, back, found, chunk_it,
                   triplet, mb_its, mb_range, mb_out>>

\* CompressedInteractionsUserIterator::next
UserNext ==
    /\ pc \in {"iter_users", "user_next"}
    /\ Nones(yielded) < MaxNones
    /\ args' = NoArgs
    /\ pc' = "user_next"
    /\ LET step == user_iterator_next(Unwrap(compressed), Unwrap(user_it))
       IN  /\ user_it' = Some(step.it)
           /\ yielded' = Append(yielded, step.value)
    /\ UNCHANGED <<store, parts, origin, compressed, back, found, chunk_it,
                   triplet, mb_its, mb_range, mb_out>>

\* the view a client holds: the one get_user found or the one the user
\* iterator returned last
HeldView ==
    IF pc = "get_user" THEN Unwrap(found) ELSE Last(yielded)

\* user.chunks(chunk_size)
Chunks(chunk_size) ==
    /\ \/ pc = "get_user"
       \/ pc = "user_next" /\ yielded # <<>>
    /\ IsSome(HeldView)
    /\ args' = [NoArgs EXCEPT !.chunk_size = chunk_size,
                              !.user_id = Unwrap(HeldView).user_id]
    /\ pc' = "chunks"
    /\ chunk_it' = Some(chunks(Unwrap(HeldView), chunk_size))
    /\ yielded' = <<>>
    /\ UNCHANGED <<store, parts, origin, compressed, back, found, user_it,
                   triplet, mb_its, mb_range, mb_out>>

\* CompressedInteractionsUserChunkIterator::next
ChunkNext ==
    /\ pc \in {"chunks", "chunk_next"}
    /\ Nones(yielded) < MaxNones
    /\ pc' = "chunk_next"
    /\ LET step == chunk_iterator_next(Unwrap(chunk_it))
       IN  /\ chunk_it' = Some(step.it)
           /\ yielded' = Append(yielded, step.value)
    /\ UNCHANGED <<args, store, parts, origin, compressed, back, found, user_it,
                   triplet, mb_its, mb_range, mb_out>>

\* interactions.to_triplet()
ToTriplet ==
    /\ pc = "built"
    /\ args' = NoArgs
    /\ pc' = "to_triplet"
    /\ triplet' = Some(triplet_from(Unwrap(store)))
    /\ UNCHANGED <<store, parts, origin, compressed, back, found, user_it,
                   chunk_it, yielded, mb_its, mb_range, mb_out>>

\* triplet.iter_minibatch(minibatch_size), driven by one worker
IterMinibatch(minibatch_size) ==
    /\ pc = "to_triplet"
    /\ args' = [NoArgs EXCEPT !.minibatch_size = minibatch_size]
    /\ pc' = "iter_minibatch"
    /\ mb_its' = <<iter_minibatch(Unwrap(triplet), minibatch_size)>>
    /\ mb_range' = [p \in 1..1 |-> <<mb_its'[p].idx, mb_its'[p].stop_idx>>]
    /\ mb_out' = <<<<>>>>
    /\ UNCHANGED <<store, parts, origin, compressed, back, found, user_it,
                   chunk_it, yielded, triplet>>

\* triplet.iter_minibatch_partitioned(minibatch_size, num_partitions), each
\* iterator handed to a worker of its own
IterMinibatchPartitioned(minibatch_size, num_partitions) ==
    /\ pc = "to_triplet"
    /\ args' = [NoArgs EXCEPT !.minibatch_size = minibatch_size,
                              !.num_partitions = num_partitions]
    /\ pc' = "iter_minibatch_partitioned"
    /\ mb_its' = iter_minibatch_partitioned(Unwrap(triplet), minibatch_size,
                                            num_partitions)
    /\ mb_range' = [p \in 1..num_partitions |-> <<mb_its'[p].idx, mb_its'[p].stop_idx>>]
    /\ mb_out' = [p \in 1..num_partitions |-> <<>>]
    /\ UNCHANGED <<store, parts, origin, compressed, back, found, user_it,
                   chunk_it, yielded, triplet>>

\* TripletMinibatchIterator::next, called by the worker that drives iterator p
MinibatchNext(p) ==
    /\ pc \in {"iter_minibatch", "iter_minibatch_partitioned"}
    /\ p \in 1..Len(mb_its)
    /\ Nones(mb_out[p]) < MaxNones
    /\ LET step == minibatch_iterator_next(Unwrap(triplet), mb_its[p])
       IN  /\ mb_its' = [mb_its EXCEPT ![p] = step.it]
           /\ mb_out' = [mb_out EXCEPT ![p] = Append(@, step.value)]
    /\ UNCHANGED <<pc, args, store, parts, origin, compressed, back, found,
                   user_it, chunk_it, yielded, triplet, mb_range>>

-----------------------------------------------------------------------------
(* Specifications *)

StoreStep ==
    \/ \E num_users \in {0, 2} : New(num_users, 2)
    \/ \E interaction \in Pushed : Push(interaction)
    \/ \E idx \in 0..(MaxLen + 1) : SplitAt(idx)
    \/ \E func \in Predicates : SplitBy(func)
    \/ \E key_0 \in Keys, key_1 \in Keys, test_fraction \in TestFractions :
          UserBasedSplit(key_0, key_1, test_fraction)
    \/ \E which \in {"store", "first", "second"} : ToCompressed(which)
    \/ ToInteractions

UserStep ==
    \/ \E user_id \in 0..3 : GetUser(user_id)
    \/ IterUsers
    \/ UserNext

ChunkStep ==
    \/ \E chunk_size \in 1..MaxChunkSize : Chunks(chunk_size)
    \/ ChunkNext

MinibatchStep ==
    \/ ToTriplet
    \/ \E minibatch_size \in 1..MaxMinibatchSize : IterMinibatch(minibatch_size)
    \/ \E minibatch_size \in 1..MaxMinibatchSize, num_partitions \in 1..MaxPartitions :
          IterMinibatchPartitioned(minibatch_size, num_partitions)
    \/ \E p \in 1..MaxPartitions : MinibatchNext(p)

\* the store, its splits and the compressed index over every short input
Next ==
    \/ pc = "start" /\ \E vec \in Inputs : FromVec(vec)
    \/ StoreStep
    \/ UserStep

Spec == Init /\ [][Next]_vars

\* the compressed index and its iterators over long histories
NextChunks ==
    \/ pc = "start" /\ \E vec \in Histories : FromVec(vec)
    \/ ToCompressed("store")
    \/ UserStep
    \/ ChunkStep

SpecChunks == Init /\ [][NextChunks]_vars

\* the triplet form and its minibatch iterators over long inputs
NextMinibatch ==
    \/ pc = "start" /\ \E vec \in Histories : FromVec(vec)
    \/ \E num_users \in 0..2 : New(num_users, 2)
    \/ MinibatchStep

SpecMinibatch == Init /\ [][NextMinibatch]_vars

\* the store under append, shuffle and every split, and the forms derived from
\* it and from the sides of a split
NextShuffle ==
    \/ pc = "start" /\ \E vec \in Inputs : FromVec(vec)
    \/ \E num_users \in {0, 2} : New(num_users, 2)
    \/ \E interaction \in Pushed : Push(interaction)
    \/ pc = "built" /\ \E draws \in Draws(len(Unwrap(store))) : Shuffle(draws)
    \/ pc = "built" /\ \E draws \in Draws(len(Unwrap(store))),
                           test_fraction \in TestFractions :
                        TrainTestSplit(draws, test_fraction)
    \/ \E idx \in 0..(MaxLen + 1) : SplitAt(idx)
    \/ \E func \in Predicates : SplitBy(func)
    \/ \E key_0 \in Keys, key_1 \in Keys : UserBasedSplit(key_0, key_1, 1)
    \/ \E which \in {"store", "first", "second"} : ToCompressed(which)
    \/ ToInteractions
    \/ ToTriplet

SpecShuffle == Init /\ [][NextShuffle]_vars

\* a store built from a list, then appended to and shuffled
NextAppend ==
    \/ pc = "start" /\ \E vec \in Inputs : FromVec(vec)
    \/ \E interaction \in Pushed : Push(interaction)
    \/ pc = "built" /\ \E draws \in Draws(len(Unwrap(store))) : Shuffle(draws)

SpecAppend == Init /\ [][NextAppend]_vars

-----------------------------------------------------------------------------
(* Properties *)

\* the values an iterator returned are its Some values followed by its Nones
SomesFirst(out) ==
    \A k \in 1..Len(out) : IsSome(out[k]) <=> k <= Len(out) - Nones(out)

Ceil(n, d) == (n + d - 1) \div d

InChunks == pc \in {"chunks", "chunk_next"}

\* the lengths of the chunks returned so far
ChunkLengths ==
    [k \in 1..(Len(yielded) - Nones(yielded)) |-> Len(Unwrap(yielded[k]).item_ids)]

\* C1: chunk boundary law.  Over a user view of length L with chunk size
\* C > 0, the chunk iterator returns ceil(L/C) chunks before it returns None
\* (none when L = 0); the first has length L mod C when that is nonzero and C
\* otherwise, every later one has length C.
C1_ChunkBoundaryLaw ==
    InChunks =>
        LET L == Len(Unwrap(chunk_it).item_ids)
            C == Unwrap(chunk_it).chunk_size
            n == Len(yielded) - Nones(yielded)
        IN  /\ SomesFirst(yielded)
            /\ n <= Ceil(L, C)
            /\ Nones(yielded) > 0 => n = Ceil(L, C)
            /\ L = 0 => n = 0
            /\ \A k \in 1..n :
                  /\ Len(Unwrap(yielded[k]).item_ids) =
                        IF k = 1 /\ L % C # 0 THEN L % C ELSE C
                  /\ Len(Unwrap(yielded[k]).timestamps) =
                        Len(Unwrap(yielded[k]).item_ids)

\* a history of 5 cut by chunk size 3 to exhaustion: lengths [2, 3]
C1_Witness ==
    /\ pc = "chunk_next"
    /\ Len(Unwrap(chunk_it).item_ids) = 5
    /\ Unwrap(chunk_it).chunk_size = 3
    /\ Nones(yielded) = 1
    /\ ChunkLengths = <<2, 3>>

InMinibatches == pc \in {"iter_minibatch", "iter_minibatch_partitioned"}

\* the number of minibatches iterator p returned so far
Batches(p) == Len(mb_out[p]) - Nones(mb_out[p])

\* the element indices (0-based) of the triplet form that lie in the k-th
\* value iterator p returned
Window(p, k) ==
    LET b == Unwrap(mb_out[p][k])
    IN  b.start .. (b.start + Len(b.user_ids) - 1)

\* C2: minibatch truncation law.  An iterator bounded to [s, e) with batch
\* size B > 0 returns floor((e-s)/B) minibatches before it returns None; the
\* k-th (from 0) is the window [s + k*B, s + (k+1)*B) of the three arrays, so
\* each has exactly B elements and a shorter remainder is never returned.
C2_MinibatchTruncationLaw ==
    InMinibatches =>
        \A p \in 1..Len(mb_its) :
            LET s == mb_range[p][1]
                e == mb_range[p][2]
                B == mb_its[p].minibatch_size
                t == Unwrap(triplet)
            IN  /\ SomesFirst(mb_out[p])
                /\ Batches(p) <= (e - s) \div B
                /\ Nones(mb_out[p]) > 0 => Batches(p) = (e - s) \div B
                /\ \A k \in 1..Batches(p) :
                      LET b == Unwrap(mb_out[p][k])
                      IN  /\ b.start = s + (k - 1) * B
                          /\ Len(b.user_ids) = B
                          /\ Len(b.item_ids) = B
                          /\ Len(b.timestamps) = B
                          /\ \A j \in 1..B :
                                /\ b.user_ids[j] = t.user_ids[b.start + j]
                                /\ b.item_ids[j] = t.item_ids[b.start + j]
                                /\ b.timestamps[j] = t.timestamps[b.start + j]

\* iter_minibatch(3) over a flat form of length 7, run to exhaustion: two
\* minibatches, the last element never returned
C2_Witness ==
    /\ pc = "iter_minibatch"
    /\ triplet_len(Unwrap(triplet)) = 7
    /\ mb_its[1].minibatch_size = 3
    /\ Nones(mb_out[1]) = 1
    /\ Batches(1) = 2

\* C3: partition disjointness.  iter_minibatch_partitioned(B, P) over length
\* L returns P iterators, the p-th (from 0) bounded to [p*floor(L/P),
\* (p+1)*floor(L/P)); however the workers' next() calls interleave, every
\* minibatch of an iterator lies inside its own range, no index is returned
\* by two iterators, none at or beyond P*floor(L/P) is returned, and the
\* backing arrays stay those built from the store.
C3_PartitionDisjointness ==
    pc = "iter_minibatch_partitioned" =>
        LET P == args.num_partitions
            L == triplet_len(Unwrap(triplet))
            chunk == L \div P
        IN  /\ Len(mb_its) = P
            /\ \A p \in 1..P :
                  /\ mb_range[p] = <<(p - 1) * chunk, p * chunk>>
                  /\ \A k \in 1..Batches(p) :
                        \A i \in Window(p, k) :
                            /\ (p - 1) * chunk <= i
                            /\ i < p * chunk
                            /\ i < P * chunk
                            /\ \A q \in 1..P : \A m \in 1..Batches(q) :
                                  i \in Window(q, m) => q = p /\ m = k
            /\ triplet = Some(triplet_from(Unwrap(store)))

\* three workers over length 7 with batch size 1: every iterator has returned
\* its two minibatches, and index 6 belongs to no iterator
C3_Witness ==
    /\ pc = "iter_minibatch_partitioned"
    /\ args.num_partitions = 3
    /\ triplet_len(Unwrap(triplet)) = 7
    /\ \A p \in 1..3 : Batches(p) = 2 /\ Nones(mb_out[p]) = 1

\* the user ids that occur in a store
UsersOf(self) == {self.interactions[k].user_id : k \in 1..len(self)}

\* C4: user stability.  user_based_split puts all interactions of one user id
\* on one side: no user id occurs in both the train store and the test store,
\* and a user of the store is in train exactly when hash(user_id) mod 100000
\* exceeds floor(test_fraction * 100000).
C4_UserStability ==
    pc = "user_based_split" =>
        LET train == parts[1]
            test  == parts[2]
            hash(u) == SipHash(args.func.key_0, args.func.key_1, u)
            \* test_fraction counts quarters
            cutoff == args.test_fraction * 25000
        IN  /\ UsersOf(train) \cap UsersOf(test) = {}
            /\ UsersOf(train) \cup UsersOf(test) = UsersOf(Unwrap(store))
            /\ \A u \in UsersOf(Unwrap(store)) :
                  u \in UsersOf(train) <=> hash(u) % 100000 > cutoff

\* a split with a user of several interactions in train and another user in test
C4_Witness ==
    /\ pc = "user_based_split"
    /\ \E u \in UsersOf(parts[1]) :
          Cardinality({k \in 1..len(parts[1]) : parts[1].interactions[k].user_id = u}) >= 2
    /\ UsersOf(parts[2]) # {}
    /\ args.test_fraction \in 1..3

\* whether every user id of a store is below its num_users
UsersInBounds(self) == \A u \in UsersOf(self) : u < self.num_users

\* C5: round trip.  For a non-empty store whose user ids are all below
\* num_users, to_interactions(to_compressed(S)) holds the records of S with
\* the same multiplicities; this holds for each side of a user_based_split,
\* and the two sides converted back hold together the records of the store.
C5_RoundTrip ==
    /\ \A which \in {"store", "first", "second"} :
          (IsSome(back[which]) /\ len(Named(which)) > 0 /\ UsersInBounds(Named(which))) =>
              /\ len(Unwrap(back[which])) = len(Named(which))
              /\ BagOfSeq(Unwrap(back[which]).interactions) =
                    BagOfSeq(Named(which).interactions)
    /\ (IsSome(back.first) /\ IsSome(back.second)) =>
          /\ len(Unwrap(back.first)) + len(Unwrap(back.second)) = len(Unwrap(store))
          /\ BagOfSeq(Unwrap(back.first).interactions)
                (+) BagOfSeq(Unwrap(back.second).interactions) =
                BagOfSeq(Unwrap(store).interactions)

\* both sides of a user_based_split converted back, neither empty, the store
\* holding a record twice and its records out of index order
C5_Witness ==
    /\ IsSome(back.first) /\ IsSome(back.second)
    /\ len(Unwrap(back.first)) > 0 /\ len(Unwrap(back.second)) > 0
    /\ \E r \in Records : CopiesIn(r, BagOfSeq(Unwrap(store).interactions)) = 2
    /\ Unwrap(back.first).interactions \o Unwrap(back.second).interactions
          # Unwrap(store).interactions
    /\ Unwrap(back.second).interactions \o Unwrap(back.first).interactions
          # Unwrap(store).interactions

\* the (item id, timestamp) pairs of a user view, in view order
ViewPairs(view) ==
    [k \in 1..Len(view.item_ids) |-> <<view.item_ids[k], view.timestamps[k]>>]

\* the (item id, timestamp) pairs of user u in a store, in store order
StorePairs(self, u) ==
    LET mine == SelectSeq(self.interactions, LAMBDA x : x.user_id = u)
    IN  [k \in 1..Len(mine) |-> <<mine[k].item_id, mine[k].timestamp>>]

\* the pairs of a sequence that carry timestamp t, in order
PairsAt(pairs, t) == SelectSeq(pairs, LAMBDA pr : pr[2] = t)

\* C6: CSR ordering.  In a compressed index built from a store, the
\* timestamps of get_user(u) are non-decreasing for every u < num_users, and
\* the interactions of one user that share a timestamp keep the relative
\* order they have in the store.
C6_SortedStable ==
    IsSome(compressed) =>
        LET c == Unwrap(compressed)
        IN  \A u \in 0..(c.num_users - 1) :
                LET view == Unwrap(get_user(c, u))
                IN  /\ \A k \in 1..(Len(view.timestamps) - 1) :
                          view.timestamps[k] <= view.timestamps[k + 1]
                    /\ \A k \in 1..Len(view.timestamps) :
                          PairsAt(ViewPairs(view), view.timestamps[k]) =
                             PairsAt(StorePairs(Named(origin), u), view.timestamps[k])

\* an index of a store in which user 0 has item 1 before item 0 at one
\* timestamp and an earlier interaction after both
C6_Witness ==
    /\ IsSome(compressed)
    /\ origin = "store"
    /\ Unwrap(store).interactions =
          <<Interaction(0, 1, 1), Interaction(0, 0, 1), Interaction(0, 1, 0)>>
    /\ ViewPairs(Unwrap(get_user(Unwrap(compressed), 0))) = <<<<1, 0>>, <<1, 1>>, <<0, 1>>>>

\* C7: pointer array.  In a compressed index built from a store of n
\* interactions the pointer array has length num_users + 1, starts at 0, ends
\* at n and is non-decreasing; pointer[u+1] - pointer[u] is the number of
\* interactions of user u in the store, and the slice [pointer[u],
\* pointer[u+1]) holds exactly user u's item ids and timestamps.
C7_PointerArray ==
    IsSome(compressed) =>
        LET c == Unwrap(compressed)
            S == Named(origin)
            n == len(S)
            pointer(u) == c.user_pointers[u + 1]
        IN  /\ Len(c.user_pointers) = c.num_users + 1
            /\ c.num_users = S.num_users
            /\ pointer(0) = 0
            /\ pointer(c.num_users) = n
            /\ Len(c.item_ids) = n
            /\ Len(c.timestamps) = n
            /\ \A u \in 0..(c.num_users - 1) :
                  /\ pointer(u) <= pointer(u + 1)
                  /\ pointer(u + 1) - pointer(u) =
                        Cardinality({k \in 1..n : S.interactions[k].user_id = u})
                  /\ BagOfSeq([k \in 1..(pointer(u + 1) - pointer(u)) |->
                                  <<c.item_ids[pointer(u) + k], c.timestamps[pointer(u) + k]>>])
                        = BagOfSeq(StorePairs(S, u))

\* the end-to-end scenario: pointers [0,2,3], user 0 items [1,2] at [1,5],
\* user 1 item [3] at [2]
C7_Witness ==
    /\ IsSome(compressed)
    /\ origin = "store"
    /\ Unwrap(store).interactions = EndToEnd
    /\ Unwrap(compressed).user_pointers = <<0, 2, 3>>
    /\ get_user(Unwrap(compressed), 0) =
          Some(CompressedInteractionsUser(0, <<1, 2>>, <<1, 5>>))
    /\ get_user(Unwrap(compressed), 1) =
          Some(CompressedInteractionsUser(1, <<3>>, <<2>>))

\* the positions of a store whose element the closure of the last call accepts
Matching == {k \in 1..len(Unwrap(store)) : Call(args.func, Unwrap(store).interactions[k])}

\* the j-th smallest element of a set of positions
Nth(positions, j) ==
    CHOOSE k \in positions : Cardinality({m \in positions : m < k}) = j - 1

\* whether `part` is the elements of the store at `positions`, in store order
IsPartAt(part, positions) ==
    /\ len(part) = Cardinality(positions)
    /\ \A j \in 1..len(part) :
          part.interactions[j] = Unwrap(store).interactions[Nth(positions, j)]

\* the pair a split returned, against the store it was called on
SplitIsPartition ==
    LET n == len(Unwrap(store))
    IN  /\ pc = "split_at" =>
              /\ IsPartAt(parts[1], 1..args.idx)
              /\ IsPartAt(parts[2], (args.idx + 1)..n)
        /\ pc = "split_by" =>
              /\ IsPartAt(parts[1], Matching)
              /\ IsPartAt(parts[2], (1..n) \ Matching)
        /\ pc \in {"split_at", "split_by"} => len(parts[1]) + len(parts[2]) = n

\* C8: partition completeness.  split_at(i), 0 <= i <= len, returns elements
\* [0, i) and elements [i, len); split_by returns the elements that match and
\* those that do not; the two lengths add up to the length of the store, every
\* position lands in exactly one part, each part keeps the store's order, and
\* the store is left as it was.
C8_SplitPartition ==
    [][(pc = "built" /\ pc' \in {"split_at", "split_by"}) =>
          (store' = store /\ SplitIsPartition')]_vars

\* split_at strictly inside a store of three different records
C8_Witness ==
    /\ pc = "split_at"
    /\ len(Unwrap(store)) = 3
    /\ args.idx = 1
    /\ Cardinality({Unwrap(store).interactions[k] : k \in 1..3}) = 3
    /\ len(parts[1]) = 1 /\ len(parts[2]) = 2

\* C9: building a store from an empty list hands the caller an error value; the
\* call does not crash.
C9_EmptyDatasetError ==
    (pc # "start" /\ args.vec = <<>> /\ store = None) => pc = "error"

\* C10: get_user(u) is None exactly when u >= num_users, and is otherwise the
\* view of user u over [pointer[u], pointer[u+1]); a fresh user iterator
\* returns num_users views before None, the k-th equal to get_user(k), empty
\* views included, and never one of an id get_user rejects.
C10_UserAccess ==
    /\ pc = "get_user" =>
          LET c == Unwrap(compressed)
              u == args.user_id
              r == Unwrap(found)
          IN  /\ r = None <=> u >= c.num_users
              /\ IsSome(r) =>
                    LET view == Unwrap(r)
                        start == c.user_pointers[u + 1]
                        stop  == c.user_pointers[u + 2]
                    IN  /\ view.user_id = u
                        /\ Len(view.item_ids) = stop - start
                        /\ Len(view.timestamps) = stop - start
                        /\ \A k \in 1..(stop - start) :
                              /\ view.item_ids[k] = c.item_ids[start + k]
                              /\ view.timestamps[k] = c.timestamps[start + k]
    /\ pc \in {"iter_users", "user_next"} =>
          LET c == Unwrap(compressed)
              n == Len(yielded) - Nones(yielded)
          IN  /\ SomesFirst(yielded)
              /\ n <= c.num_users
              /\ Nones(yielded) > 0 => n = c.num_users
              /\ \A k \in 1..n :
                    /\ Unwrap(yielded[k]).user_id = k - 1
                    /\ yielded[k] = get_user(c, k - 1)
                    /\ get_user(c, Unwrap(yielded[k]).user_id) # None

\* an exhausted iterator over an index of two users, the first without
\* interactions
C10_Witness ==
    /\ pc = "user_next"
    /\ Unwrap(compressed).num_users = 2
    /\ Nones(yielded) = 1
    /\ Len(yielded) = 3
    /\ Unwrap(yielded[1]).item_ids = <<>>
    /\ Unwrap(yielded[2]).item_ids # <<>>

\* C11: train_test_split permutes the store in place and returns (train,
\* test): with n the length of the store and cut = floor(test_fraction * n),
\* test is the first cut elements of the store's order after the shuffle and
\* train the remaining n - cut elements in that order, and train and test
\* together are a permutation of the records the store held before the call.
C11_TrainTestSplit ==
    [][pc' = "train_test_split" =>
        LET before == Unwrap(store).interactions
            after  == Unwrap(store').interactions
            n      == Len(before)
            \* test_fraction counts quarters
            cut    == CHOOSE c \in 0..n :
                         4 * c <= args'.test_fraction * n
                         /\ args'.test_fraction * n < 4 * (c + 1)
            train  == parts'[1].interactions
            test   == parts'[2].interactions
        IN  /\ Len(after) = n
            /\ BagOfSeq(after) = BagOfSeq(before)
            /\ test = SubSeq(after, 1, cut)
            /\ train = SubSeq(after, cut + 1, n)
            /\ BagOfSeq(train \o test) = BagOfSeq(before)]_vars

\* a split of three distinct records at test_fraction 1/2, after a shuffle
\* that moved every record
C11_Witness ==
    /\ pc = "train_test_split"
    /\ args.test_fraction = 2
    /\ args.draws = <<0, 0>>
    /\ LET after == Unwrap(store).interactions
       IN  /\ Len(after) = 3
           /\ Cardinality({after[k] : k \in 1..3}) = 3
           /\ parts[2].interactions = <<after[1]>>
           /\ parts[1].interactions = <<after[2], after[3]>>

SameBounds(a, b) == a.num_users = b.num_users /\ a.num_items = b.num_items

\* every store returned by the last split and every form derived from the
\* store or from a side of the split carries the bounds of the store
Carried ==
    IsSome(store) =>
        /\ \A k \in 1..Len(parts) : SameBounds(parts[k], Unwrap(store))
        /\ IsSome(compressed) => SameBounds(Unwrap(compressed), Unwrap(store))
        /\ IsSome(triplet) => SameBounds(Unwrap(triplet), Unwrap(store))
        /\ \A which \in {"store", "first", "second"} :
              IsSome(back[which]) => SameBounds(Unwrap(back[which]), Unwrap(store))

\* C12: num_users and num_items are fixed when a store is created: no append,
\* shuffle or split changes them in the store, and every store a split
\* returns, every compressed index, every triplet form and every
\* to_interactions result derived from them carries the same two values.
C12_BoundsFixed ==
    [][/\ IsSome(store) => IsSome(store') /\ SameBounds(Unwrap(store'), Unwrap(store))
       /\ Carried']_vars

\* both sides of a user_based_split of a store whose appended interaction
\* exceeds its bounds
C12_Witness ==
    /\ pc = "user_based_split"
    /\ Unwrap(store).num_users = 1
    /\ Unwrap(store).num_items = 1
    /\ \E k \in 1..len(Unwrap(store)) : Unwrap(store).interactions[k].user_id = 1
    /\ \A k \in 1..2 : len(parts[k]) > 0 /\ SameBounds(parts[k], Unwrap(store))

\* num_users = 1 + max(user_id) and num_items = 1 + max(item_id) over the
\* interactions a non-empty store contains
Dense(self) ==
    /\ self.num_users = 1 + Max({self.interactions[k].user_id : k \in 1..len(self)})
    /\ self.num_items = 1 + Max({self.interactions[k].item_id : k \in 1..len(self)})

\* C13 as stated: every non-empty store built from a list and then appended
\* to and shuffled has num_users = 1 + max(user_id) and num_items = 1 +
\* max(item_id) over the interactions it contains.
C13_DenseBounds ==
    (IsSome(store) /\ len(Unwrap(store)) > 0) => Dense(Unwrap(store))

\* C13 amended: a store built from a non-empty list has num_users = 1 +
\* max(user_id) and num_items = 1 + max(item_id) when it is built; shuffle
\* preserves both equalities; append leaves num_users and num_items unchanged,
\* so after an append the equalities hold only if they held before it and the
\* appended interaction's user id is below num_users and its item id below
\* num_items.
C13_DenseUntilExceeded ==
    [][/\ (pc = "start" /\ pc' = "built") => Dense(Unwrap(store'))
       /\ (pc = "built" /\ args'.shuffled) =>
             /\ SameBounds(Unwrap(store'), Unwrap(store))
             /\ Dense(Unwrap(store')) <=> Dense(Unwrap(store))
       /\ (pc = "built" /\ IsSome(args'.interaction)) =>
             LET x == Unwrap(args'.interaction)
             IN  /\ SameBounds(Unwrap(store'), Unwrap(store))
                 /\ Dense(Unwrap(store')) <=>
                       /\ Dense(Unwrap(store))
                       /\ x.user_id < Unwrap(store).num_users
                       /\ x.item_id < Unwrap(store).num_items]_vars

\* a shuffled store whose bounds an earlier append has exceeded
C13_Witness ==
    /\ pc = "built"
    /\ args.shuffled
    /\ Unwrap(store).interactions[1] = Interaction(1, 1, 1)
    /\ Unwrap(store).num_users = 1
    /\ ~Dense(Unwrap(store))

\* the concatenation of one window of the first n values an iterator returned
RECURSIVE Concatenated(_, _, _)
Concatenated(out, field, n) ==
    IF n = 0 THEN <<>>
    ELSE Concatenated(out, field, n - 1) \o Unwrap(out[n])[field]

\* C14: the chunks of one user view are contiguous and in order.  The first
\* chunk starts at position 0, every later chunk starts where the one before
\* it ended, and the last chunk before None ends at the length L of the view;
\* the item-id window and the timestamp window of a chunk cover the same
\* positions of the view; concatenated in the order returned, the chunks
\* reproduce the user's item ids and timestamps; once next() has returned
\* None, every later next() returns None.
C14_ChunksContiguous ==
    InChunks =>
        LET view == Unwrap(get_user(Unwrap(compressed), args.user_id))
            L == Len(view.item_ids)
            n == Len(yielded) - Nones(yielded)
            start(k) == Unwrap(yielded[k]).start_idx
            stop(k) == start(k) + Len(Unwrap(yielded[k]).item_ids)
        IN  /\ SomesFirst(yielded)
            /\ n >= 1 => start(1) = 0
            /\ \A k \in 2..n : start(k) = stop(k - 1)
            /\ \A k \in 1..n :
                  /\ stop(k) > start(k)
                  /\ stop(k) <= L
                  /\ Unwrap(yielded[k]).item_ids = Slice(view.item_ids, start(k), stop(k))
                  /\ Unwrap(yielded[k]).timestamps = Slice(view.timestamps, start(k), stop(k))
            /\ Nones(yielded) > 0 =>
                  /\ IF n = 0 THEN L = 0 ELSE stop(n) = L
                  /\ Concatenated(yielded, "item_ids", n) = view.item_ids
                  /\ Concatenated(yielded, "timestamps", n) = view.timestamps
                  /\ Unwrap(chunk_it).idx = L

\* a history of 5 cut by chunk size 2 and asked twice more after its last
\* chunk: windows [0,1), [1,3), [3,5), then None twice
C14_Witness ==
    /\ pc = "chunk_next"
    /\ Unwrap(chunk_it).chunk_size = 2
    /\ Len(yielded) = 5
    /\ Nones(yielded) = 2
    /\ [k \in 1..3 |-> Unwrap(yielded[k]).start_idx] = <<0, 1, 3>>
    /\ Len(Unwrap(get_user(Unwrap(compressed), args.user_id)).item_ids) = 5

=============================================================================
